---- MODULE Spec2Model ----
(***************************************************************************)
(* Parallel batch-processing and incremental-resumption pipeline of the    *)
(* A/B comparison workload (grouptest/run_parallel_analysis.py together    *)
(* with grouptest/ab_test_analyzer_enhanced.py), and the monitor that      *)
(* compiles, summarises and reports once the analysis has stopped          *)
(* (grouptest/auto_complete_analysis.py).                                  *)
(*                                                                         *)
(* Spec is a whole parallel run followed by the monitor; SpecPartition,    *)
(* SpecItem, SpecWorker, SpecStats and SpecDecide explore one step of it   *)
(* (the split, one item, one worker object, the statistics functions, the  *)
(* decision functions) over a wider range of inputs.  SpecLate is a run    *)
(* over 200 rows of which only the last few are left to process, SpecFair  *)
(* is Spec with the progress thread polling fairly, and SpecResume is the  *)
(* sequential run with resumption (grouptest/run_full_enhanced_analysis.py)*)
(* batch after batch.                                                      *)
(*                                                                         *)
(* A work item is identified by its 1-based url_index.  The Result Store   *)
(* is the results directory: one optional file per naming prefix and       *)
(* index.  An optional value (Python None or a value) is a sequence of     *)
(* length 0 or 1.                                                          *)
(***************************************************************************)
EXTENDS Integers, Sequences, FiniteSets, TLC

\* ---------------------------------------------------------------- bounds
\* Rows of the spreadsheet in a modelled parallel run.
MaxUrls == 3
\* Largest --workers value in a modelled parallel run.
MaxWorkers == 2
\* Rows of the spreadsheet when only the partitioning step is explored.
MaxBacklog == 10
\* Largest --workers value when only the partitioning step is explored.
MaxPartWorkers == 4

\* ------------------------------------------------------- program constants
max_retries == 3

\* The two glob patterns, in the order the code enumerates them.
Patterns == <<"enhanced_result", "parallel_result">>
Prefixes == {Patterns[k] : k \in 1..Len(Patterns)}

VARIABLES
    total_urls,     \* len(df): rows of the input spreadsheet
    num_workers,    \* run_parallel_analysis(num_workers)
    files,          \* results directory: files[prefix][url_index], <<>> or <<record>>
    files0,         \* the results directory as it was when the run started
    pc,             \* position of run_parallel_analysis
    url_batches,    \* the batches submitted to the pool
    wpc,            \* position of each process_url_batch call
    wpos,           \* per batch: number of items already taken from url_batch
    worker,         \* per batch: the ParallelWorker object and its browser sessions
    batch_results,  \* per batch: the local list batch_results
    completed_urls, \* global counter
    failed_urls,    \* global list
    all_results,    \* global list
    collected,      \* per batch: its future was consumed by as_completed
    final_results,  \* the list written to all_parallel_results.json
    call,           \* one ParallelWorker.process_url call, its inputs and outcome
    wlog,           \* the methods called so far on a worker driven by an arbitrary caller
    stats,          \* parallel_statistics.json: <<>> or <<stats>>
    monitor,        \* auto_complete_analysis.main after its wait loop
    decide,         \* the decision functions applied to given win counts and averages
    analyzer,       \* a sequential EnhancedABTestAnalyzer: self.results and its statistics
    progress,       \* the update_progress_display thread
    resume          \* run_with_resumption and the analyzer of its current batch

vars == <<total_urls, num_workers, files, files0, pc, url_batches, wpc, wpos,
          worker, batch_results, completed_urls, failed_urls, all_results,
          collected, final_results, call, wlog, stats, monitor, decide,
          analyzer, progress, resume>>

\* The variables neither the parallel run nor the monitor touches.
extra == <<wlog, decide, analyzer, resume>>

None == <<>>
Some(x) == <<x>>
Min(a, b) == IF a < b THEN a ELSE b

\* Python s[lo:hi] for 0 <= lo <= hi.
Slice(s, lo, hi) == SubSeq(s, lo + 1, Min(hi, Len(s)))

\* len(range(0, n, step)) for step >= 1.
RangeLen(n, step) == (n + step - 1) \div step

\* ------------------------------------------------------------ Result Store

\* existing_results: every index that has a file under either pattern.
existing_results(f) ==
    UNION {{i \in DOMAIN f[p] : f[p][i] # None} : p \in Prefixes}

\* A variant that forgets the filter on existing results.
urls_to_process_unfiltered(f, total) == [i \in 1..total |-> i]

\* urls_to_process: the rows, in row order, whose url_index has no result file.
urls_to_process(f, total) ==
    SelectSeq([i \in 1..total |-> i], LAMBDA i : i \notin existing_results(f))

\* open(result_file, 'w'); json.dump(result, f): creates or overwrites one file.
write_result(f, prefix, url_index, record) ==
    [f EXCEPT ![prefix][url_index] = Some(record)]

\* ------------------------------------------------------------ partitioning

\* A batch size of one item, whatever the number of workers.
batch_size_single(n, workers) == 1

\* Variants of the batch size: dividing by one worker too many, and the
\* exact ceiling of n / workers.
batch_size_extra_worker(n, workers) == n \div (workers + 1) + 1
batch_size_ceiling(n, workers) == (n + workers - 1) \div workers

\* batch_size = len(urls_to_process) // num_workers + 1
batch_size(n, workers) == n \div workers + 1

\* A variant whose slices are one item too long, so neighbours overlap.
split_batches_overlap(urls, workers) ==
    LET bs == Len(urls) \div workers + 1
    IN [k \in 1..RangeLen(Len(urls), bs) |->
            Slice(urls, (k - 1) * bs, (k - 1) * bs + bs + 1)]

\* [urls[i:i + batch_size] for i in range(0, len(urls), batch_size)]
split_batches(urls, workers) ==
    LET bs == batch_size(Len(urls), workers)
    IN [k \in 1..RangeLen(Len(urls), bs) |->
            Slice(urls, (k - 1) * bs, (k - 1) * bs + bs)]

\* ------------------------------------------------------- per-item processing

\* The placeholder analysis used when the classifier gave nothing.
DegradedAnalysis ==
    [winner |-> "unknown", score_a |-> 0, score_b |-> 0,
     duplicates_in_a |-> -1, duplicates_in_b |-> -1]

\* Judgments the classifier can give (the fields the pipeline reads).
Analyses ==
    {[winner |-> "A", score_a |-> 8, score_b |-> 6,
      duplicates_in_a |-> 0, duplicates_in_b |-> 2],
     [winner |-> "B", score_a |-> 5, score_b |-> 7,
      duplicates_in_a |-> 1, duplicates_in_b |-> 0],
     [winner |-> "Tie", score_a |-> 7, score_b |-> 7,
      duplicates_in_a |-> -1, duplicates_in_b |-> 1]}

\* What the HTTP call to the classifier can do: answer 200 with a parsable
\* judgment, answer 200 with a body json.loads or the key lookup rejects,
\* answer another status, or raise (timeout, connection error).
Responses ==
    {[kind |-> "ok", analysis |-> a] : a \in Analyses}
    \cup {[kind |-> k, analysis |-> DegradedAnalysis] :
            k \in {"unparsable", "http_error", "exception"}}

\* analyze_with_enhanced_gpt: the parsed judgment, or None on every failure.
analyze_with_enhanced_gpt(response) ==
    IF response.kind = "exception" THEN None
    ELSE IF response.kind = "http_error" THEN None
    ELSE IF response.kind = "unparsable" THEN None
    ELSE Some(response.analysis)

\* A capture script: raises[k] says whether attempt k of one capture raises.
ScriptLen == max_retries + 1
Scripts == [1..ScriptLen -> BOOLEAN]

\* A variant that gives up at the first failed attempt.
capture_attempt_no_retry(raises, attempt) ==
    IF raises[attempt + 1]
    THEN [data |-> FALSE, attempts |-> attempt + 1]
    ELSE [data |-> TRUE, attempts |-> attempt + 1]

\* The loop "for attempt in range(max_retries)" from iteration `attempt` on:
\* data is TRUE when the dict of captured data is returned, FALSE for None.
RECURSIVE capture_attempt(_, _)
capture_attempt(raises, attempt) ==
    IF attempt >= max_retries
    THEN [data |-> FALSE, attempts |-> attempt]
    ELSE IF ~raises[attempt + 1]
    THEN [data |-> TRUE, attempts |-> attempt + 1]
    ELSE IF attempt = max_retries - 1
    THEN [data |-> FALSE, attempts |-> attempt + 1]
    ELSE capture_attempt(raises, attempt + 1)

capture_screenshot(raises) == capture_attempt(raises, 0)

\* The result dict compiled by EnhancedABTestAnalyzer.process_url.
ResultRecord(url_index, analysis) ==
    [url_index |-> url_index,
     winner |-> analysis.winner,
     score_a |-> analysis.score_a,
     score_b |-> analysis.score_b,
     duplicates_a |-> analysis.duplicates_in_a,
     duplicates_b |-> analysis.duplicates_in_b]

\* A variant that skips the item only when both captures failed.
analyzer_process_url_both_failed(f, url_index, raises_a, raises_b, response) ==
    LET variant_a_data == capture_screenshot(raises_a)
        variant_b_data == capture_screenshot(raises_b)
        got == analyze_with_enhanced_gpt(response)
        result == ResultRecord(url_index,
                               IF got = None THEN DegradedAnalysis ELSE got[1])
    IN  IF ~variant_a_data.data /\ ~variant_b_data.data
        THEN [result |-> None, files |-> f,
              data_a |-> variant_a_data.data, data_b |-> variant_b_data.data,
              attempts_a |-> variant_a_data.attempts,
              attempts_b |-> variant_b_data.attempts,
              gpt_calls |-> 0]
        ELSE [result |-> Some(result),
              files |-> write_result(f, "enhanced_result", url_index, result),
              data_a |-> variant_a_data.data, data_b |-> variant_b_data.data,
              attempts_a |-> variant_a_data.attempts,
              attempts_b |-> variant_b_data.attempts,
              gpt_calls |-> 1]

\* A variant that discards the item when the classifier gave nothing.
analyzer_process_url_discard(f, url_index, raises_a, raises_b, response) ==
    LET variant_a_data == capture_screenshot(raises_a)
        variant_b_data == capture_screenshot(raises_b)
        got == analyze_with_enhanced_gpt(response)
    IN  IF ~variant_a_data.data \/ ~variant_b_data.data \/ got = None
        THEN [result |-> None, files |-> f,
              data_a |-> variant_a_data.data, data_b |-> variant_b_data.data,
              attempts_a |-> variant_a_data.attempts,
              attempts_b |-> variant_b_data.attempts,
              gpt_calls |-> IF variant_a_data.data /\ variant_b_data.data
                            THEN 1 ELSE 0]
        ELSE [result |-> Some(ResultRecord(url_index, got[1])),
              files |-> write_result(f, "enhanced_result", url_index,
                                     ResultRecord(url_index, got[1])),
              data_a |-> variant_a_data.data, data_b |-> variant_b_data.data,
              attempts_a |-> variant_a_data.attempts,
              attempts_b |-> variant_b_data.attempts,
              gpt_calls |-> 1]

\* A variant that asks the classifier a second time when it gave nothing.
analyzer_process_url_asks_again(f, url_index, raises_a, raises_b, response) ==
    LET variant_a_data == capture_screenshot(raises_a)
        variant_b_data == capture_screenshot(raises_b)
    IN  IF ~variant_a_data.data \/ ~variant_b_data.data
        THEN [result |-> None, files |-> f,
              data_a |-> variant_a_data.data, data_b |-> variant_b_data.data,
              attempts_a |-> variant_a_data.attempts,
              attempts_b |-> variant_b_data.attempts,
              gpt_calls |-> 0]
        ELSE LET got == analyze_with_enhanced_gpt(response)
                 analysis == IF got = None THEN DegradedAnalysis ELSE got[1]
                 result == ResultRecord(url_index, analysis)
             IN [result |-> Some(result),
                 files |-> write_result(f, "enhanced_result", url_index, result),
                 data_a |-> variant_a_data.data, data_b |-> variant_b_data.data,
                 attempts_a |-> variant_a_data.attempts,
                 attempts_b |-> variant_b_data.attempts,
                 gpt_calls |-> IF got = None THEN 2 ELSE 1]

\* EnhancedABTestAnalyzer.process_url on results directory f: both captures
\* run before the check; the classifier is called only when both gave data.
analyzer_process_url(f, url_index, raises_a, raises_b, response) ==
    LET variant_a_data == capture_screenshot(raises_a)
        variant_b_data == capture_screenshot(raises_b)
    IN  IF ~variant_a_data.data \/ ~variant_b_data.data
        THEN [result |-> None, files |-> f,
              data_a |-> variant_a_data.data, data_b |-> variant_b_data.data,
              attempts_a |-> variant_a_data.attempts,
              attempts_b |-> variant_b_data.attempts,
              gpt_calls |-> 0]
        ELSE LET got == analyze_with_enhanced_gpt(response)
                 analysis == IF got = None THEN DegradedAnalysis ELSE got[1]
                 result == ResultRecord(url_index, analysis)
             IN [result |-> Some(result),
                 files |-> write_result(f, "enhanced_result", url_index, result),
                 data_a |-> variant_a_data.data, data_b |-> variant_b_data.data,
                 attempts_a |-> variant_a_data.attempts,
                 attempts_b |-> variant_b_data.attempts,
                 gpt_calls |-> 1]

\* ParallelWorker.process_url: the analyzer's result is saved a second time
\* under the parallel prefix; any exception (here: the write failing) is
\* logged and turned into None.
worker_process_url(f, url_index, raises_a, raises_b, response, write_raises) ==
    LET r == analyzer_process_url(f, url_index, raises_a, raises_b, response)
        out == [analyzer_result |-> r.result, result |-> r.result,
                files |-> r.files, data_a |-> r.data_a, data_b |-> r.data_b,
                attempts_a |-> r.attempts_a,
                attempts_b |-> r.attempts_b, gpt_calls |-> r.gpt_calls]
    IN  IF r.result # None
        THEN IF write_raises
             THEN [out EXCEPT !.result = None]
             ELSE [out EXCEPT !.files =
                      write_result(r.files, "parallel_result", url_index, r.result[1])]
        ELSE out

\* --------------------------------------------------------- worker lifecycle

\* ParallelWorker.__init__: no analyzer yet.  analyzer and driver say whether
\* self.analyzer and self.analyzer.driver are set; sessions counts the browser
\* sessions this worker started that were not quit, opened those it ever started.
NewWorker == [analyzer |-> FALSE, driver |-> FALSE, sessions |-> 0, opened |-> 0]

\* What the environment does to one setup() call: nothing, the analyzer's
\* constructor raises (no API key), webdriver.Chrome raises, or execute_script
\* raises after the browser started.
SetupOutcomes == {"ok", "init_raises", "chrome_raises", "script_raises"}

\* EnhancedABTestAnalyzer.setup_driver: returns at once when a driver is set;
\* otherwise starts a browser, keeps it in self.driver, and re-raises whatever
\* goes wrong.
setup_driver(w, outcome) ==
    IF w.driver
    THEN [worker |-> w, raised |-> FALSE]
    ELSE IF outcome = "chrome_raises"
         THEN [worker |-> w, raised |-> TRUE]
         ELSE [worker |-> [w EXCEPT !.driver = TRUE, !.sessions = @ + 1,
                                    !.opened = @ + 1],
               raised |-> outcome = "script_raises"]

\* ParallelWorker.setup: a fresh analyzer (whose driver is None) replaces
\* self.analyzer, then setup_driver runs on it.  A session held by the analyzer
\* that was replaced stays open; nothing refers to it any more.
worker_setup(w, outcome) ==
    IF outcome = "init_raises"
    THEN [worker |-> w, raised |-> TRUE]
    ELSE setup_driver([w EXCEPT !.analyzer = TRUE, !.driver = FALSE], outcome)

\* EnhancedABTestAnalyzer.close_driver: quit the session self.driver refers to
\* and forget it; nothing to do without a driver.
close_driver(w) ==
    IF w.driver THEN [w EXCEPT !.driver = FALSE, !.sessions = @ - 1] ELSE w

\* A cleanup that forgets to close the driver.
worker_cleanup_keeps_driver(w) == w

\* ParallelWorker.cleanup: if self.analyzer: self.analyzer.close_driver().
worker_cleanup(w) == IF w.analyzer THEN close_driver(w) ELSE w

\* process_url_batch up to its loop, and past it when setup raises:
\* try: worker.setup() ... finally: worker.cleanup().
batch_setup(outcome) ==
    LET r == worker_setup(NewWorker, outcome)
    IN IF r.raised
       THEN [worker |-> worker_cleanup(r.worker), wpc |-> "raised"]
       ELSE [worker |-> r.worker, wpc |-> "processing"]

\* ------------------------------------------------------------------ compile

\* The records of the files matching one pattern, in sorted(glob) order
\* (zero-padded names sort by index).
load_pattern(f, prefix) ==
    LET present == SelectSeq([i \in 1..Len(f[prefix]) |-> i],
                             LAMBDA i : f[prefix][i] # None)
    IN [k \in 1..Len(present) |-> f[prefix][present[k]][1]]

\* list.sort(key=lambda x: x['url_index']): stable, ascending.
\* The elements of s whose key lies in lo..hi, by ascending key, elements
\* with the same key in the order they have in s.
RECURSIVE sort_key_range(_, _, _)
sort_key_range(s, lo, hi) ==
    IF lo > hi THEN <<>>
    ELSE IF lo = hi THEN SelectSeq(s, LAMBDA r : r.url_index = lo)
    ELSE sort_key_range(s, lo, (lo + hi) \div 2)
         \o sort_key_range(s, (lo + hi) \div 2 + 1, hi)

sort_by_url_index(s) ==
    IF s = <<>> THEN <<>>
    ELSE LET keys == {s[k].url_index : k \in 1..Len(s)}
             lo == CHOOSE x \in keys : \A y \in keys : x <= y
             hi == CHOOSE x \in keys : \A y \in keys : y <= x
         IN sort_key_range(s, lo, hi)

\* compile_final_results: every file of both patterns, then the sort.
compile_final_results(f) ==
    sort_by_url_index(load_pattern(f, Patterns[1]) \o load_pattern(f, Patterns[2]))

\* ---------------------------------------------------------------- statistics

\* Averages are kept as exact fractions num/den with den > 0.
Frac(n, d) == [num |-> n, den |-> d]
Abs(x) == IF x < 0 THEN 0 - x ELSE x

\* x < y.
FracLess(x, y) == x.num * y.den < y.num * x.den

\* abs(x - y) > n / d.
FracGapExceeds(x, y, n, d) ==
    d * Abs(x.num * y.den - y.num * x.den) > n * x.den * y.den

\* a > b * (n / d), for the float factors 1.2 = 6/5 and 1.15 = 23/20.
ExceedsRatio(a, b, n, d) == a * d > b * n

\* round(): the integer nearest to n/d for n >= 0, ties to the even one.
round_half_even(n, d) ==
    LET q == n \div d
        r == n % d
    IN IF 2 * r > d THEN q + 1
       ELSE IF 2 * r = d THEN q + (q % 2)
       ELSE q

\* round(x / total * 100, 1), in tenths of a percent.
percentage(x, total) == round_half_even(x * 1000, total)

\* round(x, 2) of the fraction x, in hundredths.
round2(x) == round_half_even(x.num * 100, x.den)

\* sum(s), adding the two halves of the list.
RECURSIVE SumSeq(_)
SumSeq(s) ==
    IF s = <<>> THEN 0
    ELSE IF Len(s) = 1 THEN s[1]
    ELSE SumSeq(SubSeq(s, 1, Len(s) \div 2))
         + SumSeq(SubSeq(s, Len(s) \div 2 + 1, Len(s)))

\* A count that takes an "unknown" winner for a tie.
count_winner_loose(results, w) ==
    Cardinality({k \in 1..Len(results) :
                    \/ results[k].winner = w
                    \/ w = "Tie" /\ results[k].winner = "unknown"})

\* sum(1 for r in results if r['analysis']['winner'] == w)
count_winner(results, w) ==
    Cardinality({k \in 1..Len(results) : results[k].winner = w})

\* [r['variant_a'].get('duplicates', 0) for r in results
\*      if r['variant_a'].get('duplicates', -1) >= 0], and the same for b.
duplicates_data_a(results) ==
    LET valid == SelectSeq(results, LAMBDA r : r.duplicates_a >= 0)
    IN [k \in 1..Len(valid) |-> valid[k].duplicates_a]
duplicates_data_b(results) ==
    LET valid == SelectSeq(results, LAMBDA r : r.duplicates_b >= 0)
    IN [k \in 1..Len(valid) |-> valid[k].duplicates_b]

\* sum(r['variant_a'].get('score', 0) for r in results) / len(results)
avg_score_a(results) ==
    Frac(SumSeq([k \in 1..Len(results) |-> results[k].score_a]), Len(results))
avg_score_b(results) ==
    Frac(SumSeq([k \in 1..Len(results) |-> results[k].score_b]), Len(results))

\* A three-way rule that lets a tie go to variant A.
overall_winner_ties_to_a(wins_a, wins_b) ==
    IF wins_a >= wins_b THEN "A (opt_seg=5)" ELSE "B (opt_seg=6)"

\* "A (opt_seg=5)" if wins_a > wins_b else "B (opt_seg=6)" if wins_b > wins_a
\* else "Tie": the expression of run_parallel_analysis.py line 343 and of
\* ab_test_analyzer_enhanced.py line 470.
overall_winner(wins_a, wins_b) ==
    IF wins_a > wins_b THEN "A (opt_seg=5)"
    ELSE IF wins_b > wins_a THEN "B (opt_seg=6)"
    ELSE "Tie"

\* A recommendation whose duplicate tier starts at a gap of 0.5.
generate_recommendation_half_gap(wins_a, wins_b, avg_dup_a, avg_dup_b) ==
    IF ExceedsRatio(wins_a, wins_b, 6, 5)
    THEN IF FracLess(avg_dup_a, avg_dup_b)
         THEN "Strongly recommend opt_seg=5 (better rankings AND fewer duplicates)"
         ELSE "Recommend opt_seg=5 (significantly better rankings despite more duplicates)"
    ELSE IF ExceedsRatio(wins_b, wins_a, 6, 5)
    THEN IF FracLess(avg_dup_b, avg_dup_a)
         THEN "Strongly recommend opt_seg=6 (better rankings AND fewer duplicates)"
         ELSE "Recommend opt_seg=6 (significantly better rankings despite more duplicates)"
    ELSE IF FracGapExceeds(avg_dup_a, avg_dup_b, 1, 2)
    THEN IF FracLess(avg_dup_a, avg_dup_b)
         THEN "Slight preference for opt_seg=5 (similar quality but fewer duplicates)"
         ELSE "Slight preference for opt_seg=6 (similar quality but fewer duplicates)"
    ELSE "No clear winner - both algorithms perform similarly. Consider A/B testing in production."

\* generate_recommendation of run_parallel_analysis.py.
generate_recommendation(wins_a, wins_b, avg_dup_a, avg_dup_b) ==
    IF ExceedsRatio(wins_a, wins_b, 6, 5)
    THEN IF FracLess(avg_dup_a, avg_dup_b)
         THEN "Strongly recommend opt_seg=5 (better rankings AND fewer duplicates)"
         ELSE "Recommend opt_seg=5 (significantly better rankings despite more duplicates)"
    ELSE IF ExceedsRatio(wins_b, wins_a, 6, 5)
    THEN IF FracLess(avg_dup_b, avg_dup_a)
         THEN "Strongly recommend opt_seg=6 (better rankings AND fewer duplicates)"
         ELSE "Recommend opt_seg=6 (significantly better rankings despite more duplicates)"
    ELSE IF FracGapExceeds(avg_dup_a, avg_dup_b, 1, 1)
    THEN IF FracLess(avg_dup_a, avg_dup_b)
         THEN "Slight preference for opt_seg=5 (similar quality but fewer duplicates)"
         ELSE "Slight preference for opt_seg=6 (similar quality but fewer duplicates)"
    ELSE "No clear winner - both algorithms perform similarly. Consider A/B testing in production."

\* calculate_final_statistics: nothing is written for an empty list; otherwise
\* the stats object saved as parallel_statistics.json.  Both duplicate
\* averages are divided by valid_duplicate_count, the number of records whose
\* variant_a count is determined.  Percentages are in tenths, averages in
\* hundredths; the confidence fields are left out.
calculate_final_statistics(results) ==
    IF results = <<>> THEN None
    ELSE LET wins_a == count_winner(results, "A")
             wins_b == count_winner(results, "B")
             ties == count_winner(results, "Tie")
             total_duplicates_a == SumSeq(duplicates_data_a(results))
             total_duplicates_b == SumSeq(duplicates_data_b(results))
             valid_duplicate_count == Len(duplicates_data_a(results))
             avg_duplicates_a == IF valid_duplicate_count # 0
                                 THEN Frac(total_duplicates_a, valid_duplicate_count)
                                 ELSE Frac(0, 1)
             avg_duplicates_b == IF valid_duplicate_count # 0
                                 THEN Frac(total_duplicates_b, valid_duplicate_count)
                                 ELSE Frac(0, 1)
         IN Some([total_urls_analyzed |-> Len(results),
                  variant_a_wins |-> wins_a,
                  variant_b_wins |-> wins_b,
                  ties |-> ties,
                  win_percentage_a |-> percentage(wins_a, Len(results)),
                  win_percentage_b |-> percentage(wins_b, Len(results)),
                  tie_percentage |-> percentage(ties, Len(results)),
                  average_score_a |-> round2(avg_score_a(results)),
                  average_score_b |-> round2(avg_score_b(results)),
                  average_duplicates_a |-> round2(avg_duplicates_a),
                  average_duplicates_b |-> round2(avg_duplicates_b),
                  total_duplicates_a |-> total_duplicates_a,
                  total_duplicates_b |-> total_duplicates_b,
                  overall_winner |-> overall_winner(wins_a, wins_b),
                  recommendation |-> generate_recommendation(
                      wins_a, wins_b, avg_duplicates_a, avg_duplicates_b)])

\* EnhancedABTestAnalyzer.calculate_enhanced_statistics over self.results:
\* the duplicate averages are divided by len(self.results).
calculate_enhanced_statistics(results) ==
    IF results = <<>> THEN None
    ELSE LET wins_a == count_winner(results, "A")
             wins_b == count_winner(results, "B")
             total_duplicates_a == SumSeq(duplicates_data_a(results))
             total_duplicates_b == SumSeq(duplicates_data_b(results))
         IN Some([total_urls |-> Len(results),
                  variant_a_wins |-> wins_a,
                  variant_b_wins |-> wins_b,
                  ties |-> count_winner(results, "Tie"),
                  win_percentage_a |-> percentage(wins_a, Len(results)),
                  win_percentage_b |-> percentage(wins_b, Len(results)),
                  average_duplicates_a |->
                      round2(Frac(total_duplicates_a, Len(results))),
                  average_duplicates_b |->
                      round2(Frac(total_duplicates_b, Len(results))),
                  total_duplicates_a |-> total_duplicates_a,
                  total_duplicates_b |-> total_duplicates_b,
                  overall_winner |-> overall_winner(wins_a, wins_b)])

\* determine_winner of auto_complete_analysis.py.  The returned text is kept
\* as the variant it names and the verdict that follows the dash; the win
\* count printed inside it is left out.
determine_winner(wins_a, wins_b, dup_a, dup_b) ==
    IF ExceedsRatio(wins_a, wins_b, 23, 20)
    THEN [variant |-> "Variant A (opt_seg=5)", verdict |-> "Clear winner"]
    ELSE IF ExceedsRatio(wins_b, wins_a, 23, 20)
    THEN [variant |-> "Variant B (opt_seg=6)", verdict |-> "Clear winner"]
    ELSE IF Abs(wins_a - wins_b) <= 5
    THEN IF FracGapExceeds(dup_a, dup_b, 1, 2)
         THEN IF FracLess(dup_a, dup_b)
              THEN [variant |-> "Variant A (opt_seg=5)",
                    verdict |-> "Marginal win with fewer duplicates"]
              ELSE [variant |-> "Variant B (opt_seg=6)",
                    verdict |-> "Marginal win with fewer duplicates"]
         ELSE [variant |-> "Statistical Tie", verdict |-> "No clear winner"]
    ELSE IF wins_a > wins_b
    THEN [variant |-> "Variant A (opt_seg=5)", verdict |-> "Slight advantage"]
    ELSE [variant |-> "Variant B (opt_seg=6)", verdict |-> "Slight advantage"]

\* The square of |observed - expected| / std_dev, times total:
\* z = |2 * observed - total| / sqrt(total), so z > t  iff  (2 * observed - total)^2 > t^2 * total.
z_score_squared_times_total(wins_a, wins_b, total) ==
    LET observed == IF wins_a > wins_b THEN wins_a ELSE wins_b
    IN (2 * observed - total) * (2 * observed - total)

\* z_score > n / 100; z_score is 0 when std_dev is 0 (total = 0).
z_exceeds(wins_a, wins_b, total, n) ==
    /\ total > 0
    /\ 10000 * z_score_squared_times_total(wins_a, wins_b, total) > n * n * total

\* Bands that start one threshold too early.
calculate_significance_shifted(wins_a, wins_b, total) ==
    IF z_exceeds(wins_a, wins_b, total, 196)
    THEN "Highly significant (99% confidence)"
    ELSE IF z_exceeds(wins_a, wins_b, total, 164)
    THEN "Significant (95% confidence)"
    ELSE "Not statistically significant"

\* calculate_significance of auto_complete_analysis.py.
calculate_significance(wins_a, wins_b, total) ==
    IF z_exceeds(wins_a, wins_b, total, 258)
    THEN "Highly significant (99% confidence)"
    ELSE IF z_exceeds(wins_a, wins_b, total, 196)
    THEN "Significant (95% confidence)"
    ELSE IF z_exceeds(wins_a, wins_b, total, 164)
    THEN "Marginally significant (90% confidence)"
    ELSE "Not statistically significant"

\* generate_detailed_recommendation: the list of lines it joins with " | ",
\* without the numbers printed inside them.  raised: the division
\* wins_a / wins_b (or wins_b / wins_a) in the second line hit a zero.
generate_detailed_recommendation(wins_a, wins_b, dup_a, dup_b, score_a, score_b, high_a, high_b) ==
    LET primary ==
            IF ExceedsRatio(wins_a, wins_b, 6, 5)
            THEN [raised |-> wins_b = 0,
                  parts |-> <<"STRONG RECOMMENDATION: Implement opt_seg=5 (Variant A)",
                              "Variant A shows better performance">>]
            ELSE IF ExceedsRatio(wins_b, wins_a, 6, 5)
            THEN [raised |-> wins_a = 0,
                  parts |-> <<"STRONG RECOMMENDATION: Implement opt_seg=6 (Variant B)",
                              "Variant B shows better performance">>]
            ELSE [raised |-> FALSE,
                  parts |-> <<"RECOMMENDATION: Consider extended A/B testing in production",
                              "Results show no clear winner between variants">>]
        duplicates ==
            IF FracGapExceeds(dup_a, dup_b, 1, 2)
            THEN IF FracLess(dup_a, dup_b)
                 THEN <<"Variant A shows fewer duplicates per page (better diversity)">>
                 ELSE <<"Variant B shows fewer duplicates per page (better diversity)">>
            ELSE <<>>
        quality ==
            IF FracGapExceeds(score_a, score_b, 1, 2)
            THEN IF FracLess(score_b, score_a)
                 THEN <<"Variant A has higher quality score">>
                 ELSE <<"Variant B has higher quality score">>
            ELSE <<>>
        confidence ==
            IF high_a + high_b > 0 THEN <<"High confidence wins">> ELSE <<>>
    IN IF primary.raised
       THEN [raised |-> TRUE, parts |-> <<>>]
       ELSE [raised |-> FALSE,
             parts |-> primary.parts \o duplicates \o quality \o confidence]

\* calculate_comprehensive_stats: the stats object saved as
\* final_200_statistics.json, or None when the function raises: an empty list
\* makes wins_a / len(results) divide by zero, and so does the recommendation
\* when the losing variant has no win.  Each duplicate average is divided by
\* the number of determined counts of its own variant.  The records of the
\* model carry no confidence, so no win counts as a high-confidence win; the
\* confidence fields are left out.
calculate_comprehensive_stats(results) ==
    IF results = <<>> THEN None
    ELSE LET wins_a == count_winner(results, "A")
             wins_b == count_winner(results, "B")
             ties == count_winner(results, "Tie")
             data_a == duplicates_data_a(results)
             data_b == duplicates_data_b(results)
             avg_duplicates_a == IF data_a # <<>>
                                 THEN Frac(SumSeq(data_a), Len(data_a))
                                 ELSE Frac(0, 1)
             avg_duplicates_b == IF data_b # <<>>
                                 THEN Frac(SumSeq(data_b), Len(data_b))
                                 ELSE Frac(0, 1)
             recommendation == generate_detailed_recommendation(
                 wins_a, wins_b, avg_duplicates_a, avg_duplicates_b,
                 avg_score_a(results), avg_score_b(results), 0, 0)
         IN IF recommendation.raised THEN None
            ELSE Some([analysis_complete |-> TRUE,
                       total_urls_analyzed |-> Len(results),
                       variant_a_wins |-> wins_a,
                       variant_b_wins |-> wins_b,
                       ties |-> ties,
                       win_percentage_a |-> percentage(wins_a, Len(results)),
                       win_percentage_b |-> percentage(wins_b, Len(results)),
                       tie_percentage |-> percentage(ties, Len(results)),
                       average_score_a |-> round2(avg_score_a(results)),
                       average_score_b |-> round2(avg_score_b(results)),
                       average_duplicates_a |-> round2(avg_duplicates_a),
                       average_duplicates_b |-> round2(avg_duplicates_b),
                       total_duplicates_a |-> SumSeq(data_a),
                       total_duplicates_b |-> SumSeq(data_b),
                       overall_winner |-> determine_winner(
                           wins_a, wins_b, avg_duplicates_a, avg_duplicates_b),
                       statistical_significance |->
                           calculate_significance(wins_a, wins_b, Len(results)),
                       recommendation |-> recommendation.parts])

\* ------------------------------------------------------------------ monitor

\* The number of results the monitor waits for.
target_count == 200

\* count_results: the number of distinct indices that have a result file.
count_results(f) == Cardinality(existing_results(f))

\* compile_all_results: every file of both patterns, one record kept per
\* url_index (the one loaded last), sorted by url_index.
compile_all_results(f) ==
    LET loaded == load_pattern(f, Patterns[1]) \o load_pattern(f, Patterns[2])
        last == SelectSeq([k \in 1..Len(loaded) |-> k],
                          LAMBDA k : /\ loaded[k].url_index # 0
                                     /\ \A j \in (k + 1)..Len(loaded) :
                                           loaded[j].url_index # loaded[k].url_index)
    IN sort_by_url_index([k \in 1..Len(last) |-> loaded[last[k]]])

\* ------------------------------------------------------------ initial states

\* A record left by an earlier run.
OldRecord(i) ==
    ResultRecord(i, [winner |-> "B", score_a |-> 4, score_b |-> 9,
                     duplicates_in_a |-> 3, duplicates_in_b |-> 0])

\* What earlier runs can leave for one index: nothing, the analyzer's file
\* alone (sequential run), or both files (parallel run).
Kinds == {"none", "enhanced", "both"}

StoreOf(total, kind) ==
    [p \in Prefixes |->
        [i \in 1..total |->
            IF kind[i] = "both" \/ (kind[i] = "enhanced" /\ p = "enhanced_result")
            THEN Some(OldRecord(i)) ELSE None]]

NoScript == [k \in 1..ScriptLen |-> FALSE]

NoCall ==
    [pc |-> "idle", url_index |-> 0, raises_a |-> NoScript, raises_b |-> NoScript,
     response |-> [kind |-> "exception", analysis |-> DegradedAnalysis],
     write_raises |-> FALSE, analyzer_result |-> None, result |-> None,
     data_a |-> FALSE, data_b |-> FALSE, attempts_a |-> 0, attempts_b |-> 0, gpt_calls |-> 0]

\* auto_complete_analysis.main is not running.
NoMonitor == [pc |-> "idle", results |-> <<>>, stats |-> None, report |-> None]

\* No sequential analyzer exists.
NoAnalyzer == [pc |-> "idle", results |-> <<>>, stats |-> None]

\* No decision function was called.
NoDecide == [pc |-> "idle"]

\* The module-level globals and the state before run_parallel_analysis starts.
\* The progress thread before it is started.
NoProgress == [pc |-> "idle", total_urls |-> 0, current |-> 0]

\* No sequential run with resumption is under way.
NoResume == [pc |-> "idle"]

InitGlobals ==
    /\ files0 = files
    /\ pc = "start"
    /\ url_batches = <<>>
    /\ wpc = <<>>
    /\ wpos = <<>>
    /\ batch_results = <<>>
    /\ completed_urls = 0
    /\ failed_urls = <<>>
    /\ all_results = <<>>
    /\ collected = <<>>
    /\ final_results = <<>>
    /\ stats = None
    /\ progress = NoProgress
    /\ resume = NoResume

Init ==
    /\ total_urls \in 1..MaxUrls
    /\ num_workers \in 1..MaxWorkers
    /\ \E kind \in [1..total_urls -> Kinds] : files = StoreOf(total_urls, kind)
    /\ InitGlobals
    /\ worker = <<>>
    /\ call = NoCall
    /\ wlog = <<>>
    /\ monitor = [NoMonitor EXCEPT !.pc = "waiting"]
    /\ decide = NoDecide
    /\ analyzer = NoAnalyzer

\* ------------------------------------------------------- run_parallel_analysis

\* Lines 187-191: nothing left to process, the function returns.
StartAllProcessed ==
    /\ pc = "start"
    /\ urls_to_process(files, total_urls) = <<>>
    /\ pc' = "all_processed"
    /\ UNCHANGED <<total_urls, num_workers, files, files0, url_batches, wpc, wpos,
                   worker, batch_results, completed_urls, failed_urls, all_results,
                   collected, final_results, call, stats, monitor, progress, extra>>

\* Lines 187-216: load the backlog, split it, submit one future per batch.
StartBatches ==
    /\ pc = "start"
    /\ urls_to_process(files, total_urls) # <<>>
    /\ url_batches' = split_batches(urls_to_process(files, total_urls), num_workers)
    /\ wpc' = [b \in 1..Len(url_batches') |-> "submitted"]
    /\ wpos' = [b \in 1..Len(url_batches') |-> 0]
    /\ worker' = [b \in 1..Len(url_batches') |-> NewWorker]
    /\ batch_results' = [b \in 1..Len(url_batches') |-> <<>>]
    /\ collected' = [b \in 1..Len(url_batches') |-> FALSE]
    /\ progress' = [pc |-> "running",
                    total_urls |-> Len(urls_to_process(files, total_urls)),
                    current |-> 0]
    /\ pc' = "running"
    /\ UNCHANGED <<total_urls, num_workers, files, files0, completed_urls,
                   failed_urls, all_results, final_results, call, stats, monitor, extra>>

\* ThreadPoolExecutor(max_workers=num_workers): the pool threads that are
\* running a batch.
busy_threads(w) == Cardinality({b \in 1..Len(w) : w[b] = "processing"})

\* process_url_batch up to the loop: worker.setup() opened the session.
BatchSetup(b) ==
    /\ pc = "running"
    /\ wpc[b] = "submitted"
    /\ busy_threads(wpc) < num_workers
    /\ LET r == batch_setup("ok")
       IN /\ wpc' = [wpc EXCEPT ![b] = r.wpc]
          /\ worker' = [worker EXCEPT ![b] = r.worker]
    /\ UNCHANGED <<total_urls, num_workers, files, files0, pc, url_batches, wpos,
                   batch_results, completed_urls, failed_urls, all_results,
                   collected, final_results, call, stats, monitor, progress, extra>>

\* worker.setup() raises (no API key, the browser does not start, or the
\* first script fails in the started browser): the finally block runs
\* cleanup and the exception leaves process_url_batch.
BatchSetupRaises(b) ==
    /\ pc = "running"
    /\ wpc[b] = "submitted"
    /\ busy_threads(wpc) < num_workers
    /\ \E outcome \in SetupOutcomes \ {"ok"} :
          LET r == batch_setup(outcome)
          IN /\ wpc' = [wpc EXCEPT ![b] = r.wpc]
             /\ worker' = [worker EXCEPT ![b] = r.worker]
    /\ UNCHANGED <<total_urls, num_workers, files, files0, pc, url_batches, wpos,
                   batch_results, completed_urls, failed_urls, all_results,
                   collected, final_results, call, stats, monitor, progress, extra>>

\* What the site, the classifier and the disk do during a parallel run.
RunScripts == {[k \in 1..ScriptLen |-> FALSE], [k \in 1..ScriptLen |-> TRUE]}
RunResponses ==
    {[kind |-> "ok", analysis |-> CHOOSE a \in Analyses : a.winner = "A"],
     [kind |-> "exception", analysis |-> DegradedAnalysis]}

\* A loop that walks the batch from its end.
next_item_from_end(url_batch, pos) == url_batch[Len(url_batch) - pos]

\* "for url_data in url_batch": the item taken after pos items were taken.
next_item(url_batch, pos) == url_batch[pos + 1]

\* One iteration of the loop of process_url_batch (lines 94-105).
BatchItem(b) ==
    /\ pc = "running"
    /\ wpc[b] = "processing"
    /\ wpos[b] < Len(url_batches[b])
    /\ \E raises_a \in RunScripts, raises_b \in RunScripts,
          response \in RunResponses, write_raises \in BOOLEAN :
          LET url_index == next_item(url_batches[b], wpos[b])
              r == worker_process_url(files, url_index, raises_a, raises_b,
                                      response, write_raises)
          IN /\ files' = r.files
             /\ IF r.result # None
                THEN /\ completed_urls' = completed_urls + 1
                     /\ batch_results' =
                           [batch_results EXCEPT ![b] = Append(@, r.result[1])]
                     /\ UNCHANGED failed_urls
                ELSE /\ failed_urls' = Append(failed_urls, url_index)
                     /\ UNCHANGED <<completed_urls, batch_results>>
    /\ wpos' = [wpos EXCEPT ![b] = @ + 1]
    /\ UNCHANGED <<total_urls, num_workers, files0, pc, url_batches, wpc, worker,
                   all_results, collected, final_results, call, stats, monitor, progress, extra>>

\* The loop is exhausted: finally worker.cleanup(), return batch_results.
BatchReturn(b) ==
    /\ pc = "running"
    /\ wpc[b] = "processing"
    /\ wpos[b] = Len(url_batches[b])
    /\ wpc' = [wpc EXCEPT ![b] = "returned"]
    /\ worker' = [worker EXCEPT ![b] = worker_cleanup(@)]
    /\ UNCHANGED <<total_urls, num_workers, files, files0, pc, url_batches, wpos,
                   batch_results, completed_urls, failed_urls, all_results,
                   collected, final_results, call, stats, monitor, progress, extra>>

\* A collection step without the try/except around future.result().
collect_future_unguarded(all, state, results) ==
    [all_results |-> IF state = "returned" THEN all \o results ELSE all,
     propagated |-> state = "raised"]

\* Lines 220-226: try: batch_results = future.result(); all_results.extend(...)
\* except Exception: log.  future.result() re-raises what the batch raised.
collect_future(all, state, results) ==
    [all_results |-> IF state = "returned" THEN all \o results ELSE all,
     propagated |-> FALSE]

\* One iteration of "for future in as_completed(futures)" (lines 218-226).
\* An exception that leaves the loop ends run_parallel_analysis.
Collect(b) ==
    /\ pc = "running"
    /\ wpc[b] \in {"returned", "raised"}
    /\ ~collected[b]
    /\ collected' = [collected EXCEPT ![b] = TRUE]
    /\ LET r == collect_future(all_results, wpc[b], batch_results[b])
       IN /\ all_results' = r.all_results
          /\ pc' = IF r.propagated THEN "crashed" ELSE pc
    /\ UNCHANGED <<total_urls, num_workers, files, files0, url_batches, wpc,
                   wpos, worker, batch_results, completed_urls, failed_urls,
                   final_results, call, stats, monitor, progress, extra>>

\* Lines 228-232 and 248-273: every future was consumed; compile_final_results
\* loads, sorts and saves all_parallel_results.json.
Compile ==
    /\ pc = "running"
    /\ \A b \in 1..Len(url_batches) : collected[b]
    /\ final_results' = compile_final_results(files)
    /\ pc' = "compiled"
    /\ UNCHANGED <<total_urls, num_workers, files, files0, url_batches, wpc, wpos,
                   worker, batch_results, completed_urls, failed_urls, all_results,
                   collected, call, stats, monitor, progress, extra>>

\* Line 276, then lines 234-245: calculate_final_statistics(final_results)
\* saves parallel_statistics.json, the run logs its summary and returns.
Statistics ==
    /\ pc = "compiled"
    /\ stats' = calculate_final_statistics(final_results)
    /\ pc' = "done"
    /\ UNCHANGED <<total_urls, num_workers, files, files0, url_batches, wpc, wpos,
                   worker, batch_results, completed_urls, failed_urls, all_results,
                   collected, final_results, call, monitor, progress, extra>>

\* ----------------------------------------------- auto_complete_analysis.main

\* A monitor that never sees the analysis running.
is_analysis_running_never == FALSE

\* is_analysis_running: a run_parallel_analysis.py process exists.
is_analysis_running == pc \notin {"all_processed", "done", "crashed"}

\* The wait loop ends (enough results, or the analysis stopped) and
\* compile_all_results saves final_200_results.json.
MonitorCompile ==
    /\ monitor.pc = "waiting"
    /\ \/ count_results(files) >= target_count
       \/ ~is_analysis_running
    /\ monitor' = [monitor EXCEPT !.pc = "compiled",
                                  !.results = compile_all_results(files)]
    /\ UNCHANGED <<total_urls, num_workers, files, files0, pc, url_batches, wpc,
                   wpos, worker, batch_results, completed_urls, failed_urls,
                   all_results, collected, final_results, call, stats, progress, extra>>

\* stats = calculate_comprehensive_stats(results_data); an exception it
\* raises ends main.
MonitorStats ==
    /\ monitor.pc = "compiled"
    /\ LET r == calculate_comprehensive_stats(monitor.results)
       IN monitor' = IF r = None
                     THEN [monitor EXCEPT !.pc = "crashed"]
                     ELSE [monitor EXCEPT !.pc = "stats", !.stats = r]
    /\ UNCHANGED <<total_urls, num_workers, files, files0, pc, url_batches, wpc,
                   wpos, worker, batch_results, completed_urls, failed_urls,
                   all_results, collected, final_results, call, stats, progress, extra>>

\* print_final_summary(stats); report_path = generate_final_report(): the
\* generator is handed final_200_results.json and returns a path or fails.
MonitorReport ==
    /\ monitor.pc = "stats"
    /\ \E generated \in BOOLEAN :
          monitor' = [monitor EXCEPT !.pc = "reported",
                                     !.report = Some([results_file |-> monitor.results,
                                                      generated |-> generated])]
    /\ UNCHANGED <<total_urls, num_workers, files, files0, pc, url_batches, wpc,
                   wpos, worker, batch_results, completed_urls, failed_urls,
                   all_results, collected, final_results, call, stats, progress, extra>>

\* ----------------------------------------------------- update_progress_display

\* while completed_urls < total_urls: the condition of the display loop; the
\* thread was given len(urls_to_process) as total_urls.
progress_loop_condition == completed_urls < progress.total_urls

\* One pass of the loop body: read the counter under the lock, print the
\* bar, sleep one second.
ProgressLoop ==
    /\ progress.pc = "running"
    /\ progress_loop_condition
    /\ progress' = [progress EXCEPT !.current = completed_urls]
    /\ UNCHANGED <<total_urls, num_workers, files, files0, pc, url_batches, wpc,
                   wpos, worker, batch_results, completed_urls, failed_urls,
                   all_results, collected, final_results, call, stats, monitor, extra>>

\* The loop condition is false: print the final newline and return.
ProgressExit ==
    /\ progress.pc = "running"
    /\ ~progress_loop_condition
    /\ progress' = [progress EXCEPT !.pc = "exited"]
    /\ UNCHANGED <<total_urls, num_workers, files, files0, pc, url_batches, wpc,
                   wpos, worker, batch_results, completed_urls, failed_urls,
                   all_results, collected, final_results, call, stats, monitor, extra>>

Next ==
    \/ StartAllProcessed
    \/ StartBatches
    \/ \E b \in 1..Len(url_batches) :
          \/ BatchSetup(b)
          \/ BatchSetupRaises(b)
          \/ BatchItem(b)
          \/ BatchReturn(b)
          \/ Collect(b)
    \/ Compile
    \/ Statistics
    \/ MonitorCompile
    \/ MonitorStats
    \/ MonitorReport
    \/ ProgressLoop
    \/ ProgressExit

Spec == Init /\ [][Next]_vars

\* The display thread polls once a second for as long as the process lives,
\* so a loop exit that stays possible is eventually taken.
SpecFair == Spec /\ WF_vars(ProgressExit)

\* --------------------------------------------- the partitioning step alone

InitPartition ==
    /\ total_urls \in 1..MaxBacklog
    /\ num_workers \in 1..MaxPartWorkers
    /\ \E done \in SUBSET (1..total_urls) :
          files = StoreOf(total_urls,
                          [i \in 1..total_urls |->
                              IF i \in done THEN "enhanced" ELSE "none"])
    /\ InitGlobals
    /\ worker = <<>>
    /\ call = NoCall
    /\ wlog = <<>>
    /\ monitor = NoMonitor
    /\ decide = NoDecide
    /\ analyzer = NoAnalyzer

NextPartition ==
    \/ StartAllProcessed
    \/ StartBatches

SpecPartition == InitPartition /\ [][NextPartition]_vars

\* ------------------------------------ one ParallelWorker.process_url call

\* The worker is handed an item of the backlog: its index has no file yet.
InitItem ==
    /\ total_urls = MaxUrls
    /\ num_workers = 1
    /\ \E url_index \in 1..total_urls, raises_a \in Scripts, raises_b \in Scripts,
          response \in Responses, write_raises \in BOOLEAN,
          done \in SUBSET (1..total_urls) :
          /\ url_index \notin done
          /\ files = StoreOf(total_urls,
                             [i \in 1..total_urls |->
                                 IF i \in done THEN "enhanced" ELSE "none"])
          /\ call = [NoCall EXCEPT !.pc = "ready", !.url_index = url_index,
                                   !.raises_a = raises_a, !.raises_b = raises_b,
                                   !.response = response,
                                   !.write_raises = write_raises]
    /\ InitGlobals
    /\ worker = <<>>
    /\ wlog = <<>>
    /\ monitor = NoMonitor
    /\ decide = NoDecide
    /\ analyzer = NoAnalyzer

ProcessUrl ==
    /\ call.pc = "ready"
    /\ LET r == worker_process_url(files, call.url_index, call.raises_a,
                                   call.raises_b, call.response, call.write_raises)
       IN /\ files' = r.files
          /\ call' = [call EXCEPT !.pc = "returned",
                                  !.analyzer_result = r.analyzer_result,
                                  !.result = r.result,
                                  !.data_a = r.data_a,
                                  !.data_b = r.data_b,
                                  !.attempts_a = r.attempts_a,
                                  !.attempts_b = r.attempts_b,
                                  !.gpt_calls = r.gpt_calls]
    /\ UNCHANGED <<total_urls, num_workers, files0, pc, url_batches, wpc, wpos,
                   worker, batch_results, completed_urls, failed_urls, all_results,
                   collected, final_results, stats, monitor, progress, extra>>

NextItem == ProcessUrl

SpecItem == InitItem /\ [][NextItem]_vars

\* ------------------------------- the last items of the 200-row spreadsheet

\* The largest backlog left when the run resumes near the end of the sheet.
MaxLateBacklog == 2

\* The spreadsheet has as many rows as the monitor waits for; earlier
\* sequential runs left a result for all but the last few rows.
InitLate ==
    /\ total_urls = target_count
    /\ num_workers \in 1..MaxWorkers
    /\ \E k \in 0..MaxLateBacklog :
          files = StoreOf(total_urls,
                          [i \in 1..total_urls |->
                              IF i > total_urls - k THEN "none" ELSE "enhanced"])
    /\ InitGlobals
    /\ worker = <<>>
    /\ call = NoCall
    /\ wlog = <<>>
    /\ monitor = [NoMonitor EXCEPT !.pc = "waiting"]
    /\ decide = NoDecide
    /\ analyzer = NoAnalyzer

SpecLate == InitLate /\ [][Next]_vars

\* ------------------------------- one ParallelWorker driven by any caller

\* The longest sequence of setup() and cleanup() calls explored.
MaxCalls == 3

\* worker = ParallelWorker(1); nothing else of the program runs.
InitWorker ==
    /\ total_urls = 1
    /\ num_workers = 1
    /\ files = StoreOf(1, [i \in 1..1 |-> "none"])
    /\ InitGlobals
    /\ worker = <<NewWorker>>
    /\ call = NoCall
    /\ wlog = <<>>
    /\ monitor = NoMonitor
    /\ decide = NoDecide
    /\ analyzer = NoAnalyzer

\* worker.setup(); an exception it raises reaches the caller, who goes on.
WorkerSetup ==
    /\ Len(wlog) < MaxCalls
    /\ \E outcome \in SetupOutcomes :
          LET r == worker_setup(worker[1], outcome)
          IN /\ worker' = [worker EXCEPT ![1] = r.worker]
             /\ wlog' = Append(wlog, [method |-> "setup", outcome |-> outcome,
                                      raised |-> r.raised,
                                      initialized |-> worker[1].driver])
    /\ UNCHANGED <<total_urls, num_workers, files, files0, pc, url_batches, wpc,
                   wpos, batch_results, completed_urls, failed_urls, all_results,
                   collected, final_results, call, stats, monitor, decide, analyzer, progress, resume>>

\* worker.cleanup().
WorkerCleanup ==
    /\ Len(wlog) < MaxCalls
    /\ worker' = [worker EXCEPT ![1] = worker_cleanup(@)]
    /\ wlog' = Append(wlog, [method |-> "cleanup", outcome |-> "ok",
                             raised |-> FALSE, initialized |-> worker[1].driver])
    /\ UNCHANGED <<total_urls, num_workers, files, files0, pc, url_batches, wpc,
                   wpos, batch_results, completed_urls, failed_urls, all_results,
                   collected, final_results, call, stats, monitor, decide, analyzer, progress, resume>>

NextWorker ==
    \/ WorkerSetup
    \/ WorkerCleanup

SpecWorker == InitWorker /\ [][NextWorker]_vars

\* ----------------------------------- the statistics functions on given lists

\* The longest compiled list explored, apart from the five-record scenario.
MaxRecords == 3

Winners == {"A", "B", "Tie", "unknown"}

\* (duplicates in A, duplicates in B) of one record; -1 is an undetermined count.
DupPairs == {<<-1, -1>>, <<1, 2>>, <<-1, 3>>}

\* The record of index i with a given winner and duplicate counts.
StatsRecord(i, winner, dups) ==
    ResultRecord(i, [winner |-> winner,
                     score_a |-> IF winner = "A" THEN 8 ELSE IF winner = "unknown" THEN 0 ELSE 6,
                     score_b |-> IF winner = "B" THEN 8 ELSE IF winner = "unknown" THEN 0 ELSE 6,
                     duplicates_in_a |-> dups[1], duplicates_in_b |-> dups[2]])

\* Compiled lists: one record per index, ascending.
CompiledLists ==
    UNION {{[k \in 1..n |-> StatsRecord(k, ws[k], ds[k])] :
               ws \in [1..n -> Winners], ds \in [1..n -> DupPairs]} :
           n \in 0..MaxRecords}

\* The compiled set with winners [A, A, B, Tie, A].
ScenarioWinners == <<"A", "A", "B", "Tie", "A">>
ScenarioList == [k \in 1..Len(ScenarioWinners) |->
                    StatsRecord(k, ScenarioWinners[k], <<1, 2>>)]

\* The same list is compiled by the run, compiled by the monitor and held by
\* a sequential analyzer; each then computes its statistics.
InitStats ==
    /\ total_urls = MaxUrls
    /\ num_workers = 1
    /\ files = StoreOf(total_urls, [i \in 1..total_urls |-> "none"])
    /\ files0 = files
    /\ url_batches = <<>>
    /\ wpc = <<>>
    /\ wpos = <<>>
    /\ worker = <<>>
    /\ batch_results = <<>>
    /\ completed_urls = 0
    /\ failed_urls = <<>>
    /\ all_results = <<>>
    /\ collected = <<>>
    /\ call = NoCall
    /\ wlog = <<>>
    /\ decide = NoDecide
    /\ stats = None
    /\ progress = NoProgress
    /\ resume = NoResume
    /\ pc = "compiled"
    /\ final_results \in CompiledLists \cup {ScenarioList}
    /\ monitor = [NoMonitor EXCEPT !.pc = "compiled", !.results = final_results]
    /\ analyzer = [NoAnalyzer EXCEPT !.pc = "ready", !.results = final_results]

\* EnhancedABTestAnalyzer.run_analysis, its last step:
\* self.calculate_enhanced_statistics().
AnalyzerStatistics ==
    /\ analyzer.pc = "ready"
    /\ analyzer' = [analyzer EXCEPT !.pc = "done",
                                    !.stats = calculate_enhanced_statistics(analyzer.results)]
    /\ UNCHANGED <<total_urls, num_workers, files, files0, pc, url_batches, wpc,
                   wpos, worker, batch_results, completed_urls, failed_urls,
                   all_results, collected, final_results, call, wlog, stats,
                   monitor, decide, progress, resume>>

NextStats ==
    \/ Statistics
    \/ MonitorStats
    \/ AnalyzerStatistics

SpecStats == InitStats /\ [][NextStats]_vars

\* ------------------------------- the decision functions on given numbers

\* The largest win count and the largest number of other records explored,
\* apart from the listed larger outcomes.
MaxWins == 8
MaxOther == 1

\* (wins_a, wins_b): every small pair, the 130 vs 70 outcome of 200, and two
\* outcomes more than five wins apart with neither 15% ahead.
WinPairs ==
    ((0..MaxWins) \X (0..MaxWins)) \cup {<<130, 70>>, <<46, 40>>, <<40, 46>>}

\* Average duplicates per page, in quarters.
DupLevels == {Frac(q, 4) : q \in {0, 2, 3, 5}}

\* (avg_score_a, avg_score_b) and (high_conf_a, high_conf_b).
ScorePairs == {<<Frac(7, 1), Frac(7, 1)>>, <<Frac(8, 1), Frac(7, 1)>>,
               <<Frac(6, 1), Frac(7, 1)>>}
HighPairs == {<<0, 0>>, <<1, 0>>}

InitDecide ==
    /\ total_urls = MaxUrls
    /\ num_workers = 1
    /\ files = StoreOf(total_urls, [i \in 1..total_urls |-> "none"])
    /\ InitGlobals
    /\ worker = <<>>
    /\ call = NoCall
    /\ wlog = <<>>
    /\ monitor = NoMonitor
    /\ analyzer = NoAnalyzer
    /\ \E w \in WinPairs, other \in 0..MaxOther, dup_a \in DupLevels,
          dup_b \in DupLevels, score \in ScorePairs, high \in HighPairs :
          decide = [pc |-> "ready", wins_a |-> w[1], wins_b |-> w[2],
                    total |-> w[1] + w[2] + other,
                    dup_a |-> dup_a, dup_b |-> dup_b,
                    score_a |-> score[1], score_b |-> score[2],
                    high_a |-> high[1], high_b |-> high[2],
                    overall_winner |-> None, determine_winner |-> None,
                    significance |-> None, recommendation |-> None,
                    detailed |-> None]

\* Every decision function is applied to the same numbers.
Decide ==
    /\ decide.pc = "ready"
    /\ decide' =
          [decide EXCEPT
              !.pc = "done",
              !.overall_winner = Some(overall_winner(decide.wins_a, decide.wins_b)),
              !.determine_winner =
                  Some(determine_winner(decide.wins_a, decide.wins_b,
                                        decide.dup_a, decide.dup_b)),
              !.significance =
                  Some(calculate_significance(decide.wins_a, decide.wins_b,
                                              decide.total)),
              !.recommendation =
                  Some(generate_recommendation(decide.wins_a, decide.wins_b,
                                               decide.dup_a, decide.dup_b)),
              !.detailed =
                  Some(generate_detailed_recommendation(
                           decide.wins_a, decide.wins_b, decide.dup_a,
                           decide.dup_b, decide.score_a, decide.score_b,
                           decide.high_a, decide.high_b))]
    /\ UNCHANGED <<total_urls, num_workers, files, files0, pc, url_batches, wpc,
                   wpos, worker, batch_results, completed_urls, failed_urls,
                   all_results, collected, final_results, call, wlog, stats,
                   monitor, analyzer, progress, resume>>

NextDecide == Decide

SpecDecide == InitDecide /\ [][NextDecide]_vars

\* ------------------------------------------- run_with_resumption, sequential

MaxResumeUrls == 5
MaxResumeBatch == 3
MaxRuns == 4

\* get_processed_count: the length of the list in enhanced_results.json, 0
\* when the file does not exist.
get_processed_count(file) == IF file = None THEN 0 ELSE Len(file[1])

\* run_analysis: df.iloc[start_from-1:] when start_from is given and above 1,
\* then df.head(limit); the rows are named by their url_index.
rows_of_batch(rows, limit, start_from) ==
    LET first == IF start_from # None /\ start_from[1] > 1 THEN start_from[1] ELSE 1
        last == Min(rows, first + limit - 1)
    IN [k \in 1..(IF last >= first THEN last - first + 1 ELSE 0) |-> first + k - 1]

\* save_results: enhanced_results.json is overwritten with self.results.
save_results(file, results) == Some(results)

\* The input spreadsheet has total_urls rows; enhanced_results.json does not
\* exist yet or holds the first rows.
InitResume ==
    /\ total_urls = 1
    /\ num_workers = 1
    /\ files = StoreOf(total_urls, [i \in 1..total_urls |-> "none"])
    /\ files0 = files
    /\ pc = "start"
    /\ url_batches = <<>>
    /\ wpc = <<>>
    /\ wpos = <<>>
    /\ worker = <<>>
    /\ batch_results = <<>>
    /\ completed_urls = 0
    /\ failed_urls = <<>>
    /\ all_results = <<>>
    /\ collected = <<>>
    /\ final_results = <<>>
    /\ call = NoCall
    /\ wlog = <<>>
    /\ stats = None
    /\ monitor = NoMonitor
    /\ decide = NoDecide
    /\ analyzer = NoAnalyzer
    /\ progress = NoProgress
    /\ \E total \in 1..MaxResumeUrls, size \in 1..MaxResumeBatch, had \in 0..MaxResumeUrls :
          /\ had < total
          /\ resume = [pc |-> "loop", total_urls |-> total, batch_size |-> size,
                       file |-> IF had = 0 THEN None ELSE Some([k \in 1..had |-> k]),
                       had |-> had, runs |-> 0, results |-> <<>>, df |-> <<>>,
                       times |-> [i \in 1..total |-> 0], all_ok |-> TRUE]

\* Top of the while loop: every row is counted as processed, break.
ResumeAllProcessed ==
    /\ resume.pc = "loop"
    /\ get_processed_count(resume.file) >= resume.total_urls
    /\ resume' = [resume EXCEPT !.pc = "done"]
    /\ UNCHANGED <<total_urls, num_workers, files, files0, pc, url_batches, wpc,
                   wpos, worker, batch_results, completed_urls, failed_urls,
                   all_results, collected, final_results, call, wlog, stats,
                   monitor, decide, analyzer, progress>>

\* Top of the while loop: a new EnhancedABTestAnalyzer (self.results = [])
\* and the rows run_analysis selects for the next batch.
ResumeStartBatch ==
    /\ resume.pc = "loop"
    /\ resume.runs < MaxRuns
    /\ LET processed == get_processed_count(resume.file)
           remaining == resume.total_urls - processed
           next_batch == Min(resume.batch_size, remaining)
           start_from == IF processed > 0 THEN Some(processed + 1) ELSE None
       IN /\ processed < resume.total_urls
          /\ resume' = [resume EXCEPT
                           !.pc = "batch",
                           !.results = <<>>,
                           !.df = rows_of_batch(resume.total_urls, next_batch, start_from)]
    /\ UNCHANGED <<total_urls, num_workers, files, files0, pc, url_batches, wpc,
                   wpos, worker, batch_results, completed_urls, failed_urls,
                   all_results, collected, final_results, call, wlog, stats,
                   monitor, decide, analyzer, progress>>

\* One iteration of the loop of run_analysis: process_url returns a record or
\* None; after every fifth url_index the list is saved.
ResumeItem ==
    /\ resume.pc = "batch"
    /\ resume.df # <<>>
    /\ \E ok \in BOOLEAN :
          LET url_index == Head(resume.df)
              results == IF ok THEN Append(resume.results, url_index)
                         ELSE resume.results
          IN resume' = [resume EXCEPT
                           !.df = Tail(resume.df),
                           !.results = results,
                           !.times[url_index] = @ + 1,
                           !.all_ok = @ /\ ok,
                           !.file = IF url_index % 5 = 0
                                    THEN save_results(resume.file, results)
                                    ELSE @]
    /\ UNCHANGED <<total_urls, num_workers, files, files0, pc, url_batches, wpc,
                   wpos, worker, batch_results, completed_urls, failed_urls,
                   all_results, collected, final_results, call, wlog, stats,
                   monitor, decide, analyzer, progress>>

\* The rows of the batch are exhausted: final save, statistics, the driver
\* is closed and run_with_resumption goes back to the top of its loop.
ResumeEndBatch ==
    /\ resume.pc = "batch"
    /\ resume.df = <<>>
    /\ resume' = [resume EXCEPT
                     !.pc = "loop",
                     !.runs = @ + 1,
                     !.file = save_results(resume.file, resume.results)]
    /\ UNCHANGED <<total_urls, num_workers, files, files0, pc, url_batches, wpc,
                   wpos, worker, batch_results, completed_urls, failed_urls,
                   all_results, collected, final_results, call, wlog, stats,
                   monitor, decide, analyzer, progress>>

NextResume ==
    \/ ResumeAllProcessed
    \/ ResumeStartBatch
    \/ ResumeItem
    \/ ResumeEndBatch

SpecResume == InitResume /\ [][NextResume]_vars

\* ================================================================ properties

\* The indices that had no result file when the run started.
BacklogSet ==
    {i \in 1..total_urls : \A p \in Prefixes : files0[p][i] = None}

BatchSet(b) == {url_batches[b][k] : k \in 1..Len(url_batches[b])}

NumBatches == Len(url_batches)

\* C1 -- Partition completeness: the batches built from a non-empty backlog
\* are pairwise disjoint, their union is exactly the backlog, every batch is
\* a contiguous slice of the backlog, and the items inside each batch and the
\* batches themselves keep the ascending index order.
C1_PartitionComplete ==
    pc = "running" =>
        /\ UNION {BatchSet(b) : b \in 1..NumBatches} = BacklogSet
        /\ \A b1, b2 \in 1..NumBatches :
              b1 # b2 => BatchSet(b1) \cap BatchSet(b2) = {}
        /\ \A b \in 1..NumBatches :
              /\ \A j, k \in 1..Len(url_batches[b]) :
                    j < k => url_batches[b][j] < url_batches[b][k]
              /\ \A i \in BacklogSet :
                    (\E x, y \in BatchSet(b) : x <= i /\ i <= y) => i \in BatchSet(b)
        /\ \A b1, b2 \in 1..NumBatches :
              b1 < b2 => \A x \in BatchSet(b1), y \in BatchSet(b2) : x < y

\* C1 witness: three batches cut from a backlog that has gaps.
C1_Witness ==
    /\ pc = "running"
    /\ NumBatches = 3
    /\ \E i \in 1..total_urls : i \notin BacklogSet /\ i + 1 \in BacklogSet
                                /\ i - 1 \in BacklogSet

\* C2 as stated -- a non-empty backlog is always split into exactly
\* num_workers batches.
C2_ExactlyNBatches ==
    pc = "running" => NumBatches = num_workers

\* C2 amended -- a non-empty backlog is split into at least one and at most
\* num_workers batches.
C2_AtMostNBatches ==
    pc = "running" => (1 <= NumBatches /\ NumBatches <= num_workers)

\* C2 witness: fewer batches than workers.
C2_Witness ==
    /\ pc = "running"
    /\ NumBatches < num_workers
    /\ Cardinality(BacklogSet) >= num_workers

\* C3 -- every batch but the last has exactly ceil(B / N) items and the last
\* has at most ceil(B / N) items, also when N divides B.
C3_BatchSizeIsCeiling ==
    pc = "running" =>
        LET B == Cardinality(BacklogSet)
            c == (B + num_workers - 1) \div num_workers
        IN /\ \A b \in 1..(NumBatches - 1) : Len(url_batches[b]) = c
           /\ Len(url_batches[NumBatches]) <= c

\* C4 as stated -- the sizes of any two batches of a run differ by at most
\* one, and ten items 1..10 with three workers give sizes [4,3,3] covering
\* [1-4], [5-7], [8-10].
C4_NearEqual ==
    pc = "running" =>
        /\ \A b1, b2 \in 1..NumBatches :
              Len(url_batches[b1]) - Len(url_batches[b2]) <= 1
        /\ (BacklogSet = 1..10 /\ total_urls = 10 /\ num_workers = 3) =>
              url_batches = << <<1, 2, 3, 4>>, <<5, 6, 7>>, <<8, 9, 10>> >>

\* C4 amended -- every batch but the last has floor(B / N) + 1 items and the
\* last has between 1 and floor(B / N) + 1 items; ten items 1..10 with three
\* workers give sizes [4,4,2] covering [1-4], [5-8], [9-10].
C4_EqualButLast ==
    pc = "running" =>
        LET B == Cardinality(BacklogSet)
            size == B \div num_workers + 1
        IN /\ \A b \in 1..(NumBatches - 1) : Len(url_batches[b]) = size
           /\ 1 <= Len(url_batches[NumBatches])
           /\ Len(url_batches[NumBatches]) <= size
           /\ (BacklogSet = 1..10 /\ total_urls = 10 /\ num_workers = 3) =>
                 url_batches = << <<1, 2, 3, 4>>, <<5, 6, 7, 8>>, <<9, 10>> >>

\* C4 witness: the ten-item, three-worker scenario after partitioning.
C4_Witness ==
    /\ pc = "running"
    /\ BacklogSet = 1..10
    /\ total_urls = 10
    /\ num_workers = 3
    /\ NumBatches = 3

\* The indices that had a result file when the run started.
ProcessedBefore == (1..total_urls) \ BacklogSet

\* The records a list holds.
RecordsOf(s) == {s[k] : k \in 1..Len(s)}

\* C5 -- Idempotent resumption: only indices without a result file at the
\* start are submitted to workers, no result file of an index that had one
\* is written or modified during the run, and the set compiled at the end
\* still holds the records of those indices, unchanged.
C5_IdempotentResumption ==
    /\ \A b \in 1..NumBatches : BatchSet(b) \cap ProcessedBefore = {}
    /\ \A i \in ProcessedBefore : \A p \in Prefixes : files[p][i] = files0[p][i]
    /\ pc = "done" =>
          \A i \in ProcessedBefore : \A p \in Prefixes :
              files0[p][i] # None => files0[p][i][1] \in RecordsOf(final_results)

\* C5 witness: a finished run that started with result files present and
\* processed at least one further item.
C5_Witness ==
    /\ pc = "done"
    /\ ProcessedBefore # {}
    /\ completed_urls > 0
    /\ files # files0

\* C6 -- the compiled result set holds at most one record per url_index and
\* is sorted ascending by url_index.
C6_CompiledUniqueSorted ==
    pc = "done" =>
        \A j, k \in 1..Len(final_results) :
            j < k => final_results[j].url_index < final_results[k].url_index

\* C7 -- after a parallel run exactly one result file exists for each index
\* a worker processed successfully in that run.
C7_OneFilePerProcessedIndex ==
    pc = "done" =>
        \A b \in 1..NumBatches : \A r \in RecordsOf(batch_results[b]) :
            Cardinality({p \in Prefixes : files[p][r.url_index] # None}) = 1

\* The capture step raises on each of the first n attempts.
FailsFirst(raises, n) == \A k \in 1..n : raises[k]

\* The capture step raises on every attempt the retry bound allows.
Exhausts(raises) == FailsFirst(raises, 3)

\* C8 -- Capture retry bound: a capture makes at most 3 attempts; when the
\* capture step fails on the first k <= 2 attempts and then succeeds the
\* capture returns data after k + 1 attempts, and when both variants capture
\* the item yields a record; when it fails 3 times in a row the capture
\* returns no data and no fourth attempt is made.
C8_CaptureRetryBound ==
    call.pc = "returned" =>
        /\ call.attempts_a <= 3
        /\ call.attempts_b <= 3
        /\ \A k \in 0..2 :
              /\ (FailsFirst(call.raises_a, k) /\ ~call.raises_a[k + 1]) =>
                    (call.data_a /\ call.attempts_a = k + 1)
              /\ (FailsFirst(call.raises_b, k) /\ ~call.raises_b[k + 1]) =>
                    (call.data_b /\ call.attempts_b = k + 1)
        /\ (~Exhausts(call.raises_a) /\ ~Exhausts(call.raises_b)) =>
              call.analyzer_result # None
        /\ Exhausts(call.raises_a) => (~call.data_a /\ call.attempts_a = 3)
        /\ Exhausts(call.raises_b) => (~call.data_b /\ call.attempts_b = 3)

\* C8 witness: variant A fails twice and succeeds on the third attempt,
\* variant B captures at once, and the item yields a record.
C8_Witness ==
    /\ call.pc = "returned"
    /\ call.raises_a[1] /\ call.raises_a[2] /\ ~call.raises_a[3]
    /\ ~call.raises_b[1]
    /\ call.attempts_a = 3
    /\ call.analyzer_result # None

\* C9 -- when the capture of either variant exhausts its retries, processing
\* the item returns None, the classifier is not called, no result file under
\* any prefix is written for the index, and the index is in the backlog the
\* next run computes.
C9_CaptureFailureLeavesNoFile ==
    (call.pc = "returned" /\ (Exhausts(call.raises_a) \/ Exhausts(call.raises_b))) =>
        /\ call.analyzer_result = None
        /\ call.result = None
        /\ call.gpt_calls = 0
        /\ \A p \in Prefixes : files[p][call.url_index] = None
        /\ call.url_index \in RecordsOf(urls_to_process(files, total_urls))

\* C9 witness: variant A captured, variant B exhausted its retries.
C9_Witness ==
    /\ call.pc = "returned"
    /\ ~Exhausts(call.raises_a)
    /\ Exhausts(call.raises_b)
    /\ call.response.kind = "ok"
    /\ call.result = None

\* C10 -- Degraded record shape: when both variants are captured and the
\* classifier call fails or answers something unparsable, processing the
\* item still returns a record whose winner is "unknown" and whose scores
\* are 0 for both variants, the record is written to the Result Store, and
\* the next scan of result files reports the index as processed.
C10_DegradedRecord ==
    (/\ call.pc = "returned"
     /\ ~Exhausts(call.raises_a)
     /\ ~Exhausts(call.raises_b)
     /\ call.response.kind # "ok") =>
        /\ call.analyzer_result # None
        /\ call.analyzer_result[1].winner = "unknown"
        /\ call.analyzer_result[1].score_a = 0
        /\ call.analyzer_result[1].score_b = 0
        /\ call.analyzer_result[1].url_index = call.url_index
        /\ files["enhanced_result"][call.url_index] = call.analyzer_result
        /\ call.url_index \in existing_results(files)
        /\ call.url_index \notin RecordsOf(urls_to_process(files, total_urls))

\* C10 witness: both variants captured, the classifier's answer could not
\* be parsed, and the placeholder record is on disk.
C10_Witness ==
    /\ call.pc = "returned"
    /\ call.data_a /\ call.data_b
    /\ call.response.kind = "unparsable"
    /\ call.gpt_calls = 1
    /\ files["enhanced_result"][call.url_index] # None

\* C11: on every exit path of process_url_batch (the loop ran to its end, or
\* setup raised before or after the browser started) cleanup has run when the
\* function is left: the worker holds no driver and no session it opened is
\* still open.  Before the batch starts no session is open either.
C11_SessionReleasedOnExit ==
    \A b \in 1..Len(wpc) :
        wpc[b] \in {"submitted", "returned", "raised"}
            => /\ worker[b].sessions = 0
               /\ ~worker[b].driver

\* A batch whose setup raised after the browser had started, next to a batch
\* that returned after its loop: both opened a session, both have left.
C11_Witness ==
    \E b1, b2 \in 1..Len(wpc) :
        /\ wpc[b1] = "raised" /\ worker[b1].opened = 1
        /\ wpc[b2] = "returned" /\ worker[b2].opened = 1

\* C12: setup() on an initialized worker opens no second browser session, so
\* a worker never has more than one session open.
C12_SetupIdempotent ==
    \A b \in 1..Len(worker) : worker[b].sessions <= 1

\* C13: a batch that raised is only logged.  run_parallel_analysis is never
\* left by a batch's exception; every record of a collected batch that
\* returned is in all_results; and the run ends only after every future was
\* consumed, the files were compiled and the statistics computed on them.
C13_BatchFailureContained ==
    /\ pc # "crashed"
    /\ \A b \in 1..Len(collected) :
          collected[b] /\ wpc[b] = "returned"
              => \A k \in 1..Len(batch_results[b]) :
                    \E j \in 1..Len(all_results) :
                        all_results[j] = batch_results[b][k]
    /\ pc = "done" =>
          /\ \A b \in 1..Len(collected) : collected[b]
          /\ final_results = compile_final_results(files)
          /\ stats = calculate_final_statistics(final_results)

\* A finished run in which one batch raised and another returned records
\* that were compiled and counted.
C13_Witness ==
    /\ pc = "done"
    /\ stats # None
    /\ \E b1, b2 \in 1..Len(wpc) :
          /\ wpc[b1] = "raised"
          /\ wpc[b2] = "returned"
          /\ batch_results[b2] # <<>>
          /\ \A k \in 1..Len(batch_results[b2]) :
                \E j \in 1..Len(final_results) :
                    final_results[j] = batch_results[b2][k]

CountOf(rs, w) == Len(SelectSeq(rs, LAMBDA r : r.winner = w))

\* p tenths of a percent is 100 * x / total rounded to one decimal.
NearestTenth(p, x, total) == 2 * Abs(p * total - 1000 * x) <= total

WinCountsRight(s, rs) ==
    /\ s.variant_a_wins = CountOf(rs, "A")
    /\ s.variant_b_wins = CountOf(rs, "B")
    /\ s.ties = CountOf(rs, "Tie")
    /\ s.total_urls_analyzed = Len(rs)
    /\ NearestTenth(s.win_percentage_a, s.variant_a_wins, Len(rs))

WinnersOf(rs) == [k \in 1..Len(rs) |-> rs[k].winner]

ScenarioCounts(s) ==
    /\ s.variant_a_wins = 3
    /\ s.variant_b_wins = 1
    /\ s.ties = 1
    /\ s.win_percentage_a = 600

\* C15: calculate_final_statistics produces a stats object for every
\* non-empty compiled list, and in every stats object it or
\* calculate_comprehensive_stats produces, variant_a_wins, variant_b_wins and
\* ties count the records whose winner is exactly A, B and Tie, and
\* win_percentage_a is 100 * variant_a_wins / total to one decimal; winners
\* [A, A, B, Tie, A] give 3, 1, 1 and 60.0.
C15_WinCounts ==
    /\ pc = "done" /\ final_results # <<>> =>
          /\ stats # None
          /\ WinCountsRight(stats[1], final_results)
          /\ WinnersOf(final_results) = ScenarioWinners => ScenarioCounts(stats[1])
    /\ monitor.stats # None =>
          /\ WinCountsRight(monitor.stats[1], monitor.results)
          /\ WinnersOf(monitor.results) = ScenarioWinners
                => ScenarioCounts(monitor.stats[1])

\* Both functions have produced the statistics of the scenario [A, A, B, Tie, A].
C15_Witness ==
    /\ pc = "done"
    /\ monitor.pc = "stats"
    /\ WinnersOf(final_results) = ScenarioWinners
    /\ stats[1].win_percentage_a = 600
    /\ monitor.stats[1].win_percentage_a = 600

NeitherClear(a, b) == ~(20 * a > 23 * b) /\ ~(20 * b > 23 * a)
DupGapOverHalf == FracGapExceeds(decide.dup_a, decide.dup_b, 1, 2)

\* C16 as stated: every overall_winner names the variant with strictly more
\* wins and is a tie exactly when the win counts are equal, whatever the
\* duplicate averages are.
C16_WinnerByWinsAlone ==
    decide.pc = "done" =>
        LET a == decide.wins_a
            b == decide.wins_b
            ow == decide.overall_winner[1]
            dw == decide.determine_winner[1]
        IN /\ a > b => ow = "A (opt_seg=5)" /\ dw.variant = "Variant A (opt_seg=5)"
           /\ b > a => ow = "B (opt_seg=6)" /\ dw.variant = "Variant B (opt_seg=6)"
           /\ ow = "Tie" <=> a = b
           /\ dw.variant = "Statistical Tie" <=> a = b

\* C16: the overall_winner of calculate_final_statistics and of
\* calculate_enhanced_statistics names the variant with strictly more wins
\* and is "Tie" exactly when the counts are equal.  The overall_winner of the
\* monitor (determine_winner) names a clear winner exactly when one variant
\* has more than 1.15 times the other's wins; otherwise, when the counts are
\* at most 5 apart, it names the variant with fewer average duplicates if the
\* averages differ by more than 0.5 and a statistical tie if not; otherwise
\* it names the variant with more wins.
C16_WinnerRules ==
    decide.pc = "done" =>
        LET a == decide.wins_a
            b == decide.wins_b
            ow == decide.overall_winner[1]
            dw == decide.determine_winner[1]
            fewer == IF FracLess(decide.dup_a, decide.dup_b)
                     THEN "Variant A (opt_seg=5)" ELSE "Variant B (opt_seg=6)"
            more == IF a > b THEN "Variant A (opt_seg=5)" ELSE "Variant B (opt_seg=6)"
        IN /\ a > b => ow = "A (opt_seg=5)"
           /\ b > a => ow = "B (opt_seg=6)"
           /\ ow = "Tie" <=> a = b
           /\ dw.verdict = "Clear winner" <=> ~NeitherClear(a, b)
           /\ 20 * a > 23 * b => dw.variant = "Variant A (opt_seg=5)"
           /\ 20 * b > 23 * a => dw.variant = "Variant B (opt_seg=6)"
           /\ NeitherClear(a, b) /\ Abs(a - b) <= 5 /\ DupGapOverHalf
                 => dw = [variant |-> fewer,
                          verdict |-> "Marginal win with fewer duplicates"]
           /\ NeitherClear(a, b) /\ Abs(a - b) <= 5 /\ ~DupGapOverHalf
                 => dw = [variant |-> "Statistical Tie", verdict |-> "No clear winner"]
           /\ NeitherClear(a, b) /\ Abs(a - b) > 5
                 => dw = [variant |-> more, verdict |-> "Slight advantage"]

\* Variant A has 8 wins against 7, and the monitor names variant B for its
\* fewer duplicates, while the other statistics name A.
C16_Witness ==
    /\ decide.pc = "done"
    /\ decide.wins_a = 8 /\ decide.wins_b = 7
    /\ decide.overall_winner[1] = "A (opt_seg=5)"
    /\ decide.determine_winner[1].variant = "Variant B (opt_seg=6)"

RatioA == ExceedsRatio(decide.wins_a, decide.wins_b, 6, 5)
RatioB == ExceedsRatio(decide.wins_b, decide.wins_a, 6, 5)
FewerInA == FracLess(decide.dup_a, decide.dup_b)

\* C17 as stated: a strong recommendation when one variant's wins exceed 1.2
\* times the other's; otherwise a preference for the variant with fewer
\* duplicates when the averages differ by more than 0.5; otherwise no clear
\* winner.
C17_ThreeTiersHalfGap ==
    decide.pc = "done" =>
        LET rec == decide.recommendation[1]
        IN /\ RatioA =>
                 rec \in {"Strongly recommend opt_seg=5 (better rankings AND fewer duplicates)",
                          "Recommend opt_seg=5 (significantly better rankings despite more duplicates)"}
           /\ RatioB /\ ~RatioA =>
                 rec \in {"Strongly recommend opt_seg=6 (better rankings AND fewer duplicates)",
                          "Recommend opt_seg=6 (significantly better rankings despite more duplicates)"}
           /\ ~RatioA /\ ~RatioB /\ DupGapOverHalf =>
                 rec = IF FewerInA
                       THEN "Slight preference for opt_seg=5 (similar quality but fewer duplicates)"
                       ELSE "Slight preference for opt_seg=6 (similar quality but fewer duplicates)"
           /\ ~RatioA /\ ~RatioB /\ ~DupGapOverHalf =>
                 rec = "No clear winner - both algorithms perform similarly. Consider A/B testing in production."

\* C17: generate_recommendation recommends a variant whose wins exceed 1.2
\* times the other's ("Strongly" only if it also has fewer duplicates);
\* otherwise it prefers the variant with fewer duplicates when the averages
\* differ by more than 1; otherwise it reports no clear winner.
\* generate_detailed_recommendation raises when the wins of one variant
\* exceed 1.2 times the other's and the other has none; when it returns, its
\* first line is a strong recommendation for a variant whose wins exceed 1.2
\* times the other's and a call for extended testing otherwise, and a line
\* naming the variant with fewer duplicates follows in either case exactly
\* when the averages differ by more than 0.5.
C17_RecommendationTiers ==
    decide.pc = "done" =>
        LET rec == decide.recommendation[1]
            det == decide.detailed[1]
            gap_over_one == FracGapExceeds(decide.dup_a, decide.dup_b, 1, 1)
            note == IF FewerInA
                    THEN "Variant A shows fewer duplicates per page (better diversity)"
                    ELSE "Variant B shows fewer duplicates per page (better diversity)"
        IN /\ RatioA =>
                 rec = IF FewerInA
                       THEN "Strongly recommend opt_seg=5 (better rankings AND fewer duplicates)"
                       ELSE "Recommend opt_seg=5 (significantly better rankings despite more duplicates)"
           /\ RatioB =>
                 rec = IF FracLess(decide.dup_b, decide.dup_a)
                       THEN "Strongly recommend opt_seg=6 (better rankings AND fewer duplicates)"
                       ELSE "Recommend opt_seg=6 (significantly better rankings despite more duplicates)"
           /\ ~RatioA /\ ~RatioB /\ gap_over_one =>
                 rec = IF FewerInA
                       THEN "Slight preference for opt_seg=5 (similar quality but fewer duplicates)"
                       ELSE "Slight preference for opt_seg=6 (similar quality but fewer duplicates)"
           /\ ~RatioA /\ ~RatioB /\ ~gap_over_one =>
                 rec = "No clear winner - both algorithms perform similarly. Consider A/B testing in production."
           /\ det.raised <=> \/ RatioA /\ decide.wins_b = 0
                             \/ RatioB /\ decide.wins_a = 0
           /\ ~det.raised =>
                 /\ det.parts[1] =
                       IF RatioA
                       THEN "STRONG RECOMMENDATION: Implement opt_seg=5 (Variant A)"
                       ELSE IF RatioB
                       THEN "STRONG RECOMMENDATION: Implement opt_seg=6 (Variant B)"
                       ELSE "RECOMMENDATION: Consider extended A/B testing in production"
                 /\ DupGapOverHalf <=> (Len(det.parts) >= 3 /\ det.parts[3] = note)

\* The win counts are close and the duplicate averages differ by 0.75:
\* generate_recommendation sees no clear winner, while the monitor's
\* recommendation names the variant with fewer duplicates.
C17_Witness ==
    /\ decide.pc = "done"
    /\ ~RatioA /\ ~RatioB
    /\ DupGapOverHalf
    /\ ~FracGapExceeds(decide.dup_a, decide.dup_b, 1, 1)
    /\ decide.recommendation[1] =
          "No clear winner - both algorithms perform similarly. Consider A/B testing in production."
    /\ Len(decide.detailed[1].parts) >= 3

\* C18: with z = |max(wins_a, wins_b) - total/2| / sqrt(total/4), that is
\* z^2 * total = (2 * max - total)^2, calculate_significance answers
\* "Highly significant (99% confidence)" for z > 2.58, "Significant (95%
\* confidence)" for 1.96 < z <= 2.58, "Marginally significant (90%
\* confidence)" for 1.64 < z <= 1.96 and "Not statistically significant"
\* otherwise (also for total = 0); 130 vs 70 wins of 200 are highly
\* significant.
C18_SignificanceBands ==
    decide.pc = "done" =>
        LET t == decide.total
            m == IF decide.wins_a > decide.wins_b THEN decide.wins_a ELSE decide.wins_b
            zz == 10000 * (2 * m - t) * (2 * m - t)
            sig == decide.significance[1]
        IN /\ sig = "Highly significant (99% confidence)"
                 <=> (t > 0 /\ zz > 66564 * t)
           /\ sig = "Significant (95% confidence)"
                 <=> (t > 0 /\ zz > 38416 * t /\ zz <= 66564 * t)
           /\ sig = "Marginally significant (90% confidence)"
                 <=> (t > 0 /\ zz > 26896 * t /\ zz <= 38416 * t)
           /\ sig = "Not statistically significant"
                 <=> (t = 0 \/ zz <= 26896 * t)
           /\ decide.wins_a = 130 /\ decide.wins_b = 70 /\ t = 200
                 => sig = "Highly significant (99% confidence)"

\* 130 vs 70 wins of 200 were judged.
C18_Witness ==
    /\ decide.pc = "done"
    /\ decide.wins_a = 130 /\ decide.wins_b = 70 /\ decide.total = 200
    /\ decide.significance[1] = "Highly significant (99% confidence)"

\* C19: when the run ends, completed_urls + len(failed_urls) is the number
\* of items submitted to the workers, and completed_urls is the number of
\* records collected in all_results.
C19_SummaryAccountsForAll ==
    pc = "done" =>
        /\ completed_urls + Len(failed_urls) = Len(urls_to_process(files0, total_urls))
        /\ completed_urls = Len(all_results)

\* C21: the classifier is called for an item exactly when both captures gave
\* data, and then once: a capture failure means no call, and a classifier
\* failure is followed by the placeholder record, not by a second call.
C21_ClassifierAtMostOnce ==
    call.pc = "returned" =>
        /\ call.gpt_calls <= 1
        /\ call.gpt_calls = 1 <=> (call.data_a /\ call.data_b)
        /\ call.gpt_calls = 1 /\ call.response.kind # "ok" =>
              /\ call.analyzer_result # None
              /\ call.analyzer_result[1].winner = "unknown"

\* Both captures succeeded, the classifier answered with an error status and
\* was not asked again.
C21_Witness ==
    /\ call.pc = "returned"
    /\ call.data_a /\ call.data_b
    /\ call.response.kind = "http_error"
    /\ call.gpt_calls = 1

\* C22: no compile of the result files happens while a batch of the run is
\* still being processed: when compile_final_results has run, and when the
\* monitor's compile_all_results has run, every submitted batch has returned
\* or raised.
C22_NoCompileWhileProcessing ==
    pc \in {"compiled", "done"} \/ monitor.pc \notin {"idle", "waiting"} =>
        \A b \in 1..Len(wpc) : wpc[b] \in {"returned", "raised"}

\* The indices of s that belong to batch b, in the order they have in s.
OfBatch(s, b) == SelectSeq(s, LAMBDA i : i \in BatchSet(b))

Ascending(s) == \A j, k \in 1..Len(s) : j < k => s[j] < s[k]

\* C23: at every moment the items a worker has finished are exactly the
\* first wpos items of its batch, each either in its result list or in the
\* failed list, both in ascending index order; a batch that was entered
\* returns only after its last item, whatever failed on the way.
C23_BatchInOrder ==
    \A b \in 1..Len(url_batches) :
        LET done == [k \in 1..Len(batch_results[b]) |-> batch_results[b][k].url_index]
            failed == OfBatch(failed_urls, b)
        IN /\ Ascending(url_batches[b])
           /\ Ascending(done)
           /\ Ascending(failed)
           /\ {done[k] : k \in 1..Len(done)} \cup {failed[k] : k \in 1..Len(failed)}
                 = {url_batches[b][k] : k \in 1..wpos[b]}
           /\ Len(done) + Len(failed) = wpos[b]
           /\ wpc[b] = "returned" => wpos[b] = Len(url_batches[b])
           /\ wpc[b] \in {"submitted", "raised"} => wpos[b] = 0

\* A batch returned after its first item failed and two later items succeeded.
C23_Witness ==
    \E b \in 1..Len(url_batches) :
        /\ wpc[b] = "returned"
        /\ Len(url_batches[b]) >= 3
        /\ OfBatch(failed_urls, b) = <<url_batches[b][1]>>
        /\ Len(batch_results[b]) = 2

AllBatchesFinished ==
    /\ progress.pc # "idle"
    /\ \A b \in 1..Len(wpc) : wpc[b] \in {"returned", "raised"}

C26_ProgressLoopTerminates == AllBatchesFinished ~> (progress.pc = "exited")

\* C25: in a sequential run with resumption where every item so far was
\* processed successfully, the count read back from enhanced_results.json
\* grows by the size of each finished batch, no index is processed twice,
\* and the loop needs no more than ceil(remaining / batch_size) batches.
BatchesNeeded ==
    (resume.total_urls - resume.had + resume.batch_size - 1) \div resume.batch_size

C25_ResumptionProgresses ==
    resume.pc # "idle" /\ resume.all_ok =>
        /\ \A i \in 1..resume.total_urls : resume.times[i] <= 1
        /\ resume.runs <= BatchesNeeded
        /\ resume.pc \in {"loop", "done"} =>
              get_processed_count(resume.file) =
                  Min(resume.total_urls, resume.had + resume.runs * resume.batch_size)
        /\ resume.pc = "done" =>
              /\ resume.runs = BatchesNeeded
              /\ \A i \in (resume.had + 1)..resume.total_urls : resume.times[i] = 1

\* C27: at the end of a parallel run no index recorded in failed_urls has a
\* result file under any recognized prefix, and every index a worker counted
\* as completed has one.
C27_FailedIndexHasNoFile ==
    pc = "done" =>
        /\ \A k \in 1..Len(failed_urls) :
              \A p \in Prefixes : files[p][failed_urls[k]] = None
        /\ \A b \in 1..Len(batch_results) : \A k \in 1..Len(batch_results[b]) :
              \E p \in Prefixes : files[p][batch_results[b][k].url_index] # None

\* C28: calculate_comprehensive_stats returns a statistics object, without
\* raising, for every compiled result set the monitor hands it.
C28_ComprehensiveStatsReturns ==
    /\ monitor.pc # "crashed"
    /\ monitor.pc \in {"stats", "reported"} => monitor.stats # None

\* The strength of a significance band.
BandRank(sig) ==
    CASE sig = "Highly significant (99% confidence)" -> 3
      [] sig = "Significant (95% confidence)" -> 2
      [] sig = "Marginally significant (90% confidence)" -> 1
      [] OTHER -> 0

\* C29: whenever the two variants have equal win counts the statistics say
\* "Not statistically significant", and a further tie next to the same win
\* counts never gives a stronger band.
C29_EqualWinsNotSignificant ==
    monitor.stats # None =>
        LET s == monitor.stats[1]
        IN /\ s.variant_a_wins = s.variant_b_wins =>
                 s.statistical_significance = "Not statistically significant"
           /\ BandRank(calculate_significance(s.variant_a_wins, s.variant_b_wins,
                                              s.total_urls_analyzed + 1))
                 <= BandRank(s.statistical_significance)

\* The mean of the determined counts, to two decimals; 0 when there is none.
MeanOfDetermined(data) ==
    IF data = <<>> THEN 0 ELSE round2(Frac(SumSeq(data), Len(data)))

DuplicateMeansRight(s, results) ==
    /\ s.average_duplicates_a = MeanOfDetermined(duplicates_data_a(results))
    /\ s.average_duplicates_b = MeanOfDetermined(duplicates_data_b(results))

\* C30: in every statistics object average_duplicates_a and
\* average_duplicates_b are the means of that variant's duplicate counts over
\* exactly the records whose count for that variant is determined (>= 0).
C30_DuplicateMeansOverDetermined ==
    /\ stats # None => DuplicateMeansRight(stats[1], final_results)
    /\ monitor.stats # None => DuplicateMeansRight(monitor.stats[1], monitor.results)
    /\ analyzer.stats # None => DuplicateMeansRight(analyzer.stats[1], analyzer.results)

====
